---- MODULE Spec2Model ----
(***************************************************************************)
(* A model of the text-metrics web application (src/app.py,                *)
(* src/csv_logger.py).                                                     *)
(*                                                                         *)
(* Texts are sequences of one-character strings.  Numbers that Python      *)
(* keeps as floats rounded to one decimal are kept as integers in tenths   *)
(* (0.5 is 5), readingTime in hundredths, readability scores in tenths.    *)
(***************************************************************************)
EXTENDS Integers, Sequences, FiniteSets

VARIABLES
    job,        \* which pure function the run applies: "metrics" | "ease" | "grade" | "web"
    pc,         \* "ready" before the function is applied, "done" after
    text,       \* calculate_text_metrics: the argument
    lib,        \* the answers of the textstat library for this text and its words
    metrics,    \* calculate_text_metrics: the returned record (NoMetrics before)
    score,      \* descriptor functions: the argument, in tenths
    label,      \* descriptor functions: the returned string
    users,      \* registered_users.csv: [exists, rows]
    reg,        \* per client: the register_user call in flight
    session,    \* per client: the Flask session's user_email (NoUser when absent)
    logRows,    \* number of rows appended to text_metrics_log.csv
    resp        \* the last response of /analyze, /modify: handler, status, measured text

vars == <<job, pc, text, lib, metrics, score, label, users, reg, session, logRows, resp>>

metricVars == <<text, lib, metrics>>
descVars == <<score, label>>
webVars == <<users, reg, session, logRows, resp>>

-----------------------------------------------------------------------------
(* Bounds *)

\* longest text of the exhaustively enumerated inputs
MaxLen == 3
\* largest answer of the syllable primitive, for a word or for a text
MaxSyllables == 5
\* descriptor arguments range over -NegSpan .. MaxScore (tenths)
MaxScore == 1300
NegSpan == 100
\* number of browser clients (sessions, concurrent requests)
NClients == 2
\* registration stops once registered_users.csv holds this many rows
MaxRows == 3

-----------------------------------------------------------------------------
(* Characters: str.isalpha, str.isspace, str.lower *)

NL == "\n"
UpperLetters == {"A", "T"}
LowerLetters == {"a", "b", "c", "d", "e", "f", "g", "h", "n", "o", "r", "s", "t"}
Whitespace == {" ", NL}

IsAlpha(c) == c \in UpperLetters \cup LowerLetters
IsSpace(c) == c \in Whitespace

LowerChar(c) == CASE c = "A" -> "a" [] c = "T" -> "t" [] OTHER -> c

Lower(s) == [i \in 1..Len(s) |-> LowerChar(s[i])]

\* the characters of the exhaustively enumerated texts
Alphabet == {"a", "A", ".", " ", NL}

-----------------------------------------------------------------------------
(* str.strip, str.split *)

RECURSIVE LStrip(_)
LStrip(s) == IF s # <<>> /\ IsSpace(Head(s)) THEN LStrip(Tail(s)) ELSE s

RECURSIVE RStrip(_)
RStrip(s) ==
    IF s # <<>> /\ IsSpace(s[Len(s)]) THEN RStrip(SubSeq(s, 1, Len(s) - 1)) ELSE s

Strip(s) == RStrip(LStrip(s))

\* s.split(): the maximal runs of non-whitespace characters, in order
RECURSIVE SplitWsFrom(_, _, _)
SplitWsFrom(s, i, cur) ==
    IF i > Len(s) THEN (IF cur = <<>> THEN <<>> ELSE <<cur>>)
    ELSE IF IsSpace(s[i])
         THEN (IF cur = <<>> THEN <<>> ELSE <<cur>>) \o SplitWsFrom(s, i + 1, <<>>)
         ELSE SplitWsFrom(s, i + 1, Append(cur, s[i]))

SplitWs(s) == SplitWsFrom(s, 1, <<>>)

\* s.split(sep) for a one-character sep: every piece, the empty ones included
RECURSIVE SplitCharFrom(_, _, _, _)
SplitCharFrom(s, sep, i, cur) ==
    IF i > Len(s) THEN <<cur>>
    ELSE IF s[i] = sep
         THEN <<cur>> \o SplitCharFrom(s, sep, i + 1, <<>>)
         ELSE SplitCharFrom(s, sep, i + 1, Append(cur, s[i]))

SplitChar(s, sep) == SplitCharFrom(s, sep, 1, <<>>)

\* s.split("\n\n"): cut at each non-overlapping double line break, left to right
RECURSIVE SplitParaFrom(_, _, _)
SplitParaFrom(s, i, cur) ==
    IF i > Len(s) THEN <<cur>>
    ELSE IF s[i] = NL /\ i < Len(s) /\ s[i + 1] = NL
         THEN <<cur>> \o SplitParaFrom(s, i + 2, <<>>)
         ELSE SplitParaFrom(s, i + 1, Append(cur, s[i]))

SplitPara(s) == SplitParaFrom(s, 1, <<>>)

\* [f(x) for x in seq if keep(x)] helpers
RECURSIVE NonBlank(_)
NonBlank(seq) ==
    IF seq = <<>> THEN <<>>
    ELSE IF Strip(Head(seq)) # <<>>
         THEN <<Head(seq)>> \o NonBlank(Tail(seq))
         ELSE NonBlank(Tail(seq))

StripEach(seq) == [i \in 1..Len(seq) |-> Strip(seq[i])]

RECURSIVE Sum(_)
Sum(seq) == IF seq = <<>> THEN 0 ELSE Head(seq) + Sum(Tail(seq))

Range(seq) == {seq[i] : i \in 1..Len(seq)}

Min(a, b) == IF a < b THEN a ELSE b

-----------------------------------------------------------------------------
(* round(n / d, k), the result scaled by 10^k: the caller passes n already  *)
(* scaled.  tieUp says which way an exact half goes.                        *)

RoundScaled(n, d, tieUp) ==
    LET q == n \div d
        r == n % d
    IN  IF 2 * r > d \/ (2 * r = d /\ tieUp) THEN q + 1 ELSE q

\* round(n / d, 1) in tenths.  A half arises only when n / d is a multiple of
\* 1/4 (for d < 20), which a float holds exactly, and Python rounds an exact
\* half to the even digit.
Round1(n, d) == RoundScaled(10 * n, d, ((10 * n) \div d) % 2 = 1)

\* round((n / d) * 100, 1) in tenths of a percent (halves only for 16 | d)
RoundPct(n, d) == RoundScaled(1000 * n, d, ((1000 * n) \div d) % 2 = 1)

\* round(wc / 150, 1), round(wc / 200, 1), round(wc / 40, 1), round(wc / 200, 2):
\* the halves are no exact floats, and the float nearest to wc / d decides.
\* The tables hold for wc < 40.
ReadTieUp == {10}
WriteTieUp == {2, 18, 22, 26, 30}
ReadTime2TieUp == {1, 5, 7, 11, 13, 17, 19, 23, 27, 33, 39}

-----------------------------------------------------------------------------
(* The textstat library (imported at app.py:4) is no code of the repository. *)
(* Its answers are inputs: lib.sylText = syllable_count(text),               *)
(* lib.sylWord[w] = syllable_count(w) for each word w of the text,           *)
(* lib.fk = flesch_kincaid_grade(text), lib.ease = flesch_reading_ease(text) *)
(* (tenths).  The library is a function: one argument, one answer.           *)

NoMetrics == [none |-> TRUE]

syllable_count_text(t, l) == l.sylText
syllable_count_word(w, l) == l.sylWord[w]

-----------------------------------------------------------------------------
(* calculate_text_metrics, line by line *)

\* words = text.strip().split()
Words(t) == SplitWs(Strip(t))

\* a slip: the pieces kept as split, not stripped
SentencesUnstripped(t) == NonBlank(SplitChar(t, "."))

\* sentences = [s.strip() for s in text.split('.') if s.strip()]
Sentences(t) == StripEach(NonBlank(SplitChar(t, ".")))

\* a slip: every non-whitespace character counted as a letter
LetterCountNonSpace(t) == Cardinality({i \in 1..Len(t) : ~IsSpace(t[i])})

\* letter_count = sum(c.isalpha() for c in text)
LetterCount(t) == Cardinality({i \in 1..Len(t) : IsAlpha(t[i])})

\* sentence_count = len(sentences) if sentences else 1
SentenceCount(sentences) == IF sentences # <<>> THEN Len(sentences) ELSE 1

\* unique_word_count = len(set(w.lower() for w in words))
UniqueWordCount(words) == Cardinality({Lower(words[i]) : i \in 1..Len(words)})

\* a variant: the words' syllable counts summed
TotalSyllablesPerWord(t, words, l) ==
    Sum([i \in 1..Len(words) |-> syllable_count_word(words[i], l)])

\* total_syllables = syllable_count(text)
TotalSyllables(t, words, l) == syllable_count_text(t, l)

\* sum(1 for w in words if syllable_count(w) == 3)
WordsThreeSyllables(words, l) ==
    Cardinality({i \in 1..Len(words) : syllable_count_word(words[i], l) = 3})

\* sum(1 for w in words if syllable_count(w) > 4)
WordsMoreThan4Syllables(words, l) ==
    Cardinality({i \in 1..Len(words) : syllable_count_word(words[i], l) > 4})

\* sum(1 for w in words if len(w) > 12)
WordsMoreThan12Letters(words) ==
    Cardinality({i \in 1..Len(words) : Len(words[i]) > 12})

\* the key of max(): len(s.split())
TokenCount(s) == Len(SplitWs(s))

\* a slip: a later item replaces the best when its key is not smaller
RECURSIVE MaxByTokensLast(_, _)
MaxByTokensLast(rest, best) ==
    IF rest = <<>> THEN best
    ELSE MaxByTokensLast(Tail(rest),
                         IF TokenCount(Head(rest)) >= TokenCount(best) THEN Head(rest) ELSE best)

\* max(iterable, key=...): the first item is the best so far, and a later item
\* replaces it only when its key is strictly greater
RECURSIVE MaxByTokens(_, _)
MaxByTokens(rest, best) ==
    IF rest = <<>> THEN best
    ELSE MaxByTokens(Tail(rest),
                     IF TokenCount(Head(rest)) > TokenCount(best) THEN Head(rest) ELSE best)

\* longest_sentence = max(sentences, key=lambda s: len(s.split())) if sentences else ""
LongestSentence(sentences) ==
    IF sentences # <<>> THEN MaxByTokens(Tail(sentences), Head(sentences)) ELSE <<>>

\* paragraphs = [p for p in text.split("\n\n") if p.strip()]
Paragraphs(t) == NonBlank(SplitPara(t))

\* a slip: the floor of 1 left out
ParagraphCountNoFloor(paragraphs) == Len(paragraphs)

\* paragraph_count = len(paragraphs) if paragraphs else 1
ParagraphCount(paragraphs) == IF paragraphs # <<>> THEN Len(paragraphs) ELSE 1

\* avg_sentences_per_paragraph =
\*     round(sentence_count / paragraph_count, 1) if paragraph_count > 0 else 0
AvgSentencesPerParagraph(sc, pcount) == IF pcount > 0 THEN Round1(sc, pcount) ELSE 0

\* word_frequency: the keys in insertion order (a dict keeps it), the lowercased
\* words in order of first occurrence
RECURSIVE FrequencyKeys(_, _)
FrequencyKeys(words, seen) ==
    IF words = <<>> THEN <<>>
    ELSE LET wl == Lower(Head(words))
         IN  IF wl \in seen
             THEN FrequencyKeys(Tail(words), seen)
             ELSE <<wl>> \o FrequencyKeys(Tail(words), seen \cup {wl})

\* word_frequency[wl]: the occurrences of wl among the lowercased words
Frequency(words, wl) == Cardinality({i \in 1..Len(words) : Lower(words[i]) = wl})

\* word_frequency.items()
FrequencyItems(words) ==
    LET keys == FrequencyKeys(words, {})
    IN  [i \in 1..Len(keys) |-> [word |-> keys[i], count |-> Frequency(words, keys[i])]]

\* a slip: an unstable order, an item goes before the placed items of equal count
RECURSIVE InsertByCountDescStrict(_, _)
InsertByCountDescStrict(x, placed) ==
    IF placed = <<>> THEN <<x>>
    ELSE IF Head(placed).count > x.count
         THEN <<Head(placed)>> \o InsertByCountDescStrict(x, Tail(placed))
         ELSE <<x>> \o placed

\* sorted(items, key=lambda x: x[1], reverse=True) is stable: an item goes behind
\* every item already placed whose count is not smaller
RECURSIVE InsertByCountDesc(_, _)
InsertByCountDesc(x, placed) ==
    IF placed = <<>> THEN <<x>>
    ELSE IF Head(placed).count >= x.count
         THEN <<Head(placed)>> \o InsertByCountDesc(x, Tail(placed))
         ELSE <<x>> \o placed

RECURSIVE SortedFrom(_, _)
SortedFrom(items, placed) ==
    IF items = <<>> THEN placed
    ELSE SortedFrom(Tail(items), InsertByCountDesc(Head(items), placed))

SortedByCountDesc(items) == SortedFrom(items, <<>>)

\* the slice [:5]
TopN == 5

\* top_words = sorted(word_frequency.items(), key=lambda x: x[1], reverse=True)[:5]
TopWords(words) ==
    LET sorted == SortedByCountDesc(FrequencyItems(words))
    IN  SubSeq(sorted, 1, Min(TopN, Len(sorted)))

-----------------------------------------------------------------------------
(* The descriptor functions: the argument in tenths (90 is 900) *)

\* a slip: the first bound exclusive
get_reading_ease_descriptor_strict(reading_ease) ==
    IF reading_ease > 900
    THEN "Very Easy (Easily understood by an 11-year-old, simple language)"
    ELSE IF reading_ease >= 800
    THEN "Easy (Conversational English, good for younger audiences)"
    ELSE IF reading_ease >= 700
    THEN "Fairly Easy (Standard reading level, easily understood by teenagers)"
    ELSE IF reading_ease >= 600
    THEN "Standard (Plain English, suitable for most readers)"
    ELSE IF reading_ease >= 500
    THEN "Fairly Difficult (Somewhat challenging, college-level text)"
    ELSE IF reading_ease >= 300
    THEN "Difficult (Best for academics and professionals, complex text)"
    ELSE "Very Difficult (Extremely complex, suitable for specialists)"

get_reading_ease_descriptor(reading_ease) ==
    IF reading_ease >= 900
    THEN "Very Easy (Easily understood by an 11-year-old, simple language)"
    ELSE IF reading_ease >= 800
    THEN "Easy (Conversational English, good for younger audiences)"
    ELSE IF reading_ease >= 700
    THEN "Fairly Easy (Standard reading level, easily understood by teenagers)"
    ELSE IF reading_ease >= 600
    THEN "Standard (Plain English, suitable for most readers)"
    ELSE IF reading_ease >= 500
    THEN "Fairly Difficult (Somewhat challenging, college-level text)"
    ELSE IF reading_ease >= 300
    THEN "Difficult (Best for academics and professionals, complex text)"
    ELSE "Very Difficult (Extremely complex, suitable for specialists)"

\* a slip: the first bound exclusive
get_readability_descriptor_strict(fk_grade) ==
    IF fk_grade < 50
    THEN "Very Easy (5th grade or below, easily understood by an 11-year-old)"
    ELSE IF fk_grade <= 80
    THEN "Easy (6th-8th grade, fairly easy to read)"
    ELSE IF fk_grade <= 100
    THEN "Standard (9th-10th grade, moderately challenging)"
    ELSE IF fk_grade <= 120
    THEN "Fairly Difficult (11th-12th grade, college level)"
    ELSE IF fk_grade <= 150
    THEN "Difficult (College level, requires advanced reading skills)"
    ELSE "Very Difficult (Postgraduate level, highly academic)"

get_readability_descriptor(fk_grade) ==
    IF fk_grade <= 50
    THEN "Very Easy (5th grade or below, easily understood by an 11-year-old)"
    ELSE IF fk_grade <= 80
    THEN "Easy (6th-8th grade, fairly easy to read)"
    ELSE IF fk_grade <= 100
    THEN "Standard (9th-10th grade, moderately challenging)"
    ELSE IF fk_grade <= 120
    THEN "Fairly Difficult (11th-12th grade, college level)"
    ELSE IF fk_grade <= 150
    THEN "Difficult (College level, requires advanced reading skills)"
    ELSE "Very Difficult (Postgraduate level, highly academic)"

\* "readabilityDescriptor": get_readability_descriptor(flesch_kincaid)
ReadabilityDescriptorField(flesch_kincaid) == get_readability_descriptor(flesch_kincaid)

\* "readingEaseDescriptor": get_reading_ease_descriptor(reading_ease)
ReadingEaseDescriptorField(reading_ease) == get_reading_ease_descriptor(reading_ease)

-----------------------------------------------------------------------------
(* calculate_text_metrics: the returned record *)

calculate_text_metrics(t, l) ==
    LET words == Words(t)
        sentences == Sentences(t)
        letter_count == LetterCount(t)
        word_count == Len(words)
        sentence_count == SentenceCount(sentences)
        total_syllables == TotalSyllables(t, words, l)
        words_three_syllables == WordsThreeSyllables(words, l)
        paragraph_count == ParagraphCount(Paragraphs(t))
        words_more_than_4_syllables == WordsMoreThan4Syllables(words, l)
        words_more_than_12_letters == WordsMoreThan12Letters(words)
        flesch_kincaid == l.fk
        reading_ease == l.ease
    IN  [ letterCount |-> letter_count,
          sentenceCount |-> sentence_count,
          wordCount |-> word_count,
          uniqueWordCount |-> UniqueWordCount(words),
          totalSyllables |-> total_syllables,
          avgSyllablesPerWord |->
              IF word_count > 0 THEN Round1(total_syllables, word_count) ELSE 0,
          wordsThreeSyllables |-> words_three_syllables,
          percWordsThreeSyllables |->
              IF word_count > 0 THEN RoundPct(words_three_syllables, word_count) ELSE 0,
          longestSentence |-> LongestSentence(sentences),
          paragraphCount |-> paragraph_count,
          avgSpeakingTime |->
              IF word_count > 0 THEN RoundScaled(10 * word_count, 150, FALSE) ELSE 0,
          avgReadingTime |->
              IF word_count > 0
              THEN RoundScaled(10 * word_count, 200, word_count \in ReadTieUp) ELSE 0,
          avgWritingTime |->
              IF word_count > 0
              THEN RoundScaled(10 * word_count, 40, word_count \in WriteTieUp) ELSE 0,
          avgWordsPerSentence |->
              IF sentence_count > 0 THEN Round1(word_count, sentence_count) ELSE 0,
          avgWordsPerParagraph |->
              IF paragraph_count > 0 THEN Round1(word_count, paragraph_count) ELSE 0,
          avgSentencesPerParagraph |->
              AvgSentencesPerParagraph(sentence_count, paragraph_count),
          avgCharactersPerWord |->
              IF word_count > 0 THEN Round1(letter_count, word_count) ELSE 0,
          wordsMoreThan4Syllables |-> words_more_than_4_syllables,
          percWordsMoreThan4Syllables |->
              IF word_count > 0
              THEN RoundPct(words_more_than_4_syllables, word_count) ELSE 0,
          wordsMoreThan12Letters |-> words_more_than_12_letters,
          percWordsMoreThan12Letters |->
              IF word_count > 0
              THEN RoundPct(words_more_than_12_letters, word_count) ELSE 0,
          topWords |-> TopWords(words),
          fleschKincaid |-> flesch_kincaid,
          readabilityDescriptor |-> ReadabilityDescriptorField(flesch_kincaid),
          readingEase |-> reading_ease,
          readingEaseDescriptor |-> ReadingEaseDescriptorField(reading_ease),
          readingTime |->
              RoundScaled(100 * word_count, 200, word_count \in ReadTime2TieUp),
          averageWordLength |->
              IF word_count > 0 THEN Round1(letter_count, word_count) ELSE 0 ]

-----------------------------------------------------------------------------
(* Inputs *)

\* every text over Alphabet of length at most MaxLen
TextsOfLen(n) == [1..n -> Alphabet]
ShortTexts == UNION {TextsOfLen(n) : n \in 0..MaxLen}

\* "The cat sat. The dog ran."
CatText ==
    << "T", "h", "e", " ", "c", "a", "t", " ", "s", "a", "t", ".", " ",
       "T", "h", "e", " ", "d", "o", "g", " ", "r", "a", "n", "." >>

\* "a a b b c c d d e e f"
TieText ==
    << "a", " ", "a", " ", "b", " ", "b", " ", "c", " ", "c", " ",
       "d", " ", "d", " ", "e", " ", "e", " ", "f" >>

\* "f a a b b c c d d e e g g": the first word is the rarest, six words tie
LateText ==
    << "f", " ", "a", " ", "a", " ", "b", " ", "b", " ", "c", " ", "c", " ",
       "d", " ", "d", " ", "e", " ", "e", " ", "g", " ", "g" >>

\* "a. b c. d e. f": the second and the third sentence tie for the longest
SentenceText ==
    << "a", ".", " ", "b", " ", "c", ".", " ", "d", " ", "e", ".", " ", "f" >>

\* "a b\n\nc. d\n\n\n e": paragraphs, a triple line break
ParaText ==
    << "a", " ", "b", NL, NL, "c", ".", " ", "d", NL, NL, NL, " ", "e" >>

LongTexts == {CatText, TieText, LateText, SentenceText, ParaText}

Texts == ShortTexts \cup LongTexts

\* flesch_kincaid_grade(text) and flesch_reading_ease(text): sample answers (tenths)
ReadabilityAnswers == {[fk |-> -35, ease |-> 1205], [fk |-> 51, ease |-> 899]}

\* syllable_count(w) for the words of t: any answer per word for an enumerated
\* text, one answer for all words of a long sample text
WordAnswers(t) ==
    LET W == Range(Words(t))
    IN  IF Len(t) <= MaxLen
        THEN [W -> 0..MaxSyllables]
        ELSE {[w \in W |-> n] : n \in 0..MaxSyllables}

\* syllable_count(t): the sum of the words' answers (a library that counts a
\* text word by word; the words are Words(t), punctuation kept) or any answer up to
\* MaxSyllables; the answer for t itself when t is one of its words
TextAnswers(t, sw) ==
    LET words == Words(t)
    IN  IF t \in DOMAIN sw THEN {sw[t]}
        ELSE (0..MaxSyllables) \cup {Sum([i \in 1..Len(words) |-> sw[words[i]]])}

LibAnswers(t) ==
    UNION { {[sylText |-> st, sylWord |-> sw, fk |-> r.fk, ease |-> r.ease] :
                st \in TextAnswers(t, sw), r \in ReadabilityAnswers} :
            sw \in WordAnswers(t) }

NoLib == [sylText |-> 0, sylWord |-> <<>>, fk |-> 0, ease |-> 0]

Scores == (0 - NegSpan)..MaxScore

-----------------------------------------------------------------------------------------------------------------------------------------------------
(* The web layer: registered_users.csv, the sessions, the request handlers *)

Clients == 1..NClients
NoUser == "<none>"

\* the form values of email and password, stripped; "" is a blank field
Emails == {"a@x", "A@x"}
Passwords == {"p", "q"}

\* str.lower on the values of the Email column
LowerEmail(e) == CASE e = "A@x" -> "a@x" [] e = "Email" -> "email" [] OTHER -> e

\* generate_password_hash / check_password_hash
Hash(password) == <<"hash", password>>

\* headers = ["Timestamp", "Email", "Password"]
UserHeaders == <<"Timestamp", "Email", "Password">>

\* row = [datetime.now().strftime(...), email, hashed]
UserRow(email, password) == <<"ts", email, Hash(password)>>

\* csv.DictReader: the first row names the columns, every later row is a dict
DataRows(rows) == IF rows = <<>> THEN <<>> ELSE Tail(rows)

\* row.get(name, ""): the value of the last column of that name, "" without one
RowGet(rows, row, name) ==
    LET cols == {i \in 1..Len(rows[1]) : rows[1][i] = name}
    IN  IF cols = {} THEN ""
        ELSE row[CHOOSE i \in cols : \A j \in cols : j <= i]

\* for row in reader: if row.get("Email", "").lower() == email.lower()
EmailFound(rows, email) ==
    \E k \in 1..Len(DataRows(rows)) :
        LowerEmail(RowGet(rows, DataRows(rows)[k], "Email")) = LowerEmail(email)

\* validate_user
validate_user(email, password) ==
    /\ users.exists
    /\ \E k \in 1..Len(DataRows(users.rows)) :
          LET row == DataRows(users.rows)[k]
          IN  /\ LowerEmail(RowGet(users.rows, row, "Email")) = LowerEmail(email)
              /\ RowGet(users.rows, row, "Password") = Hash(password)

\* a row of the file, the header apart, holds this email (in any case)
EmailStored(rows, email) ==
    \E i \in 1..Len(rows) :
        rows[i] # UserHeaders /\ LowerEmail(rows[i][2]) = LowerEmail(email)

\* stored: whether the email was stored when the call began (kept for the
\* properties, the code holds no such value)
IdleReg == [pc |-> "idle", email |-> NoUser, file_exists |-> FALSE, stored |-> FALSE]

NoResp == [handler |-> "none", status |-> 0, error |-> "", logged_in |-> FALSE,
           text |-> <<>>, called |-> FALSE, measured |-> <<>>]

Response(handler, status, error) ==
    [handler |-> handler, status |-> status, error |-> error, logged_in |-> FALSE,
     text |-> <<>>, called |-> FALSE, measured |-> <<>>]

WebIdle ==
    /\ users = [exists |-> FALSE, rows |-> <<>>]
    /\ reg = [c \in Clients |-> IdleReg]
    /\ session = [c \in Clients |-> NoUser]
    /\ logRows = 0
    /\ resp = NoResp

-----
(* The pure functions, each applied to one input *)

MetricsInit ==
    /\ job = "metrics"
    /\ pc = "ready"
    /\ text \in Texts
    /\ lib \in LibAnswers(text)
    /\ metrics = NoMetrics
    /\ score = 0
    /\ label = ""
    /\ WebIdle

EaseInit ==
    /\ job = "ease"
    /\ pc = "ready"
    /\ score \in Scores
    /\ label = ""
    /\ text = <<>>
    /\ lib = NoLib
    /\ metrics = NoMetrics
    /\ WebIdle

GradeInit ==
    /\ job = "grade"
    /\ pc = "ready"
    /\ score \in Scores
    /\ label = ""
    /\ text = <<>>
    /\ lib = NoLib
    /\ metrics = NoMetrics
    /\ WebIdle

Init == MetricsInit \/ EaseInit \/ GradeInit

Calculate ==
    /\ job = "metrics"
    /\ pc = "ready"
    /\ metrics' = calculate_text_metrics(text, lib)
    /\ pc' = "done"
    /\ UNCHANGED <<job, text, lib, score, label, webVars>>

DescribeEase ==
    /\ job = "ease"
    /\ pc = "ready"
    /\ label' = get_reading_ease_descriptor(score)
    /\ pc' = "done"
    /\ UNCHANGED <<job, score, metricVars, webVars>>

DescribeGrade ==
    /\ job = "grade"
    /\ pc = "ready"
    /\ label' = get_readability_descriptor(score)
    /\ pc' = "done"
    /\ UNCHANGED <<job, score, metricVars, webVars>>

Next == Calculate \/ DescribeEase \/ DescribeGrade

Spec == Init /\ [][Next]_vars

-----------------------------------------------------------------------------
(* Properties of calculate_text_metrics *)

Measured == job = "metrics" /\ pc = "done"

\* C1 as stated: for the empty string, wordCount = 0, sentenceCount = 1,
\* paragraphCount = 1, and every per-word, per-sentence and per-paragraph average
\* and every percentage is 0.
C1_Original ==
    (Measured /\ text = <<>>) =>
        /\ metrics.wordCount = 0
        /\ metrics.sentenceCount = 1
        /\ metrics.paragraphCount = 1
        /\ metrics.avgSyllablesPerWord = 0
        /\ metrics.avgCharactersPerWord = 0
        /\ metrics.averageWordLength = 0
        /\ metrics.avgWordsPerSentence = 0
        /\ metrics.avgWordsPerParagraph = 0
        /\ metrics.avgSentencesPerParagraph = 0
        /\ metrics.percWordsThreeSyllables = 0
        /\ metrics.percWordsMoreThan4Syllables = 0
        /\ metrics.percWordsMoreThan12Letters = 0

\* C1, amended: for the empty string, wordCount = 0, sentenceCount = 1,
\* paragraphCount = 1, every per-word average, avgWordsPerSentence,
\* avgWordsPerParagraph and every percentage is 0, and avgSentencesPerParagraph
\* is 1.0 (the floored sentence count over the floored paragraph count).
C1_EmptyText ==
    (Measured /\ text = <<>>) =>
        /\ metrics.wordCount = 0
        /\ metrics.sentenceCount = 1
        /\ metrics.paragraphCount = 1
        /\ metrics.avgSyllablesPerWord = 0
        /\ metrics.avgCharactersPerWord = 0
        /\ metrics.averageWordLength = 0
        /\ metrics.avgWordsPerSentence = 0
        /\ metrics.avgWordsPerParagraph = 0
        /\ metrics.avgSentencesPerParagraph = 10
        /\ metrics.percWordsThreeSyllables = 0
        /\ metrics.percWordsMoreThan4Syllables = 0
        /\ metrics.percWordsMoreThan12Letters = 0

C1_Witness == Measured /\ text = <<>> /\ metrics.avgSentencesPerParagraph = 10

HasNoPeriod(t) == \A i \in 1..Len(t) : t[i] # "."
IsBlank(t) == \A i \in 1..Len(t) : IsSpace(t[i])

\* the text without its leading and trailing whitespace, by positions
Trimmed(t) ==
    LET solid == {i \in 1..Len(t) : ~IsSpace(t[i])}
    IN  IF solid = {} THEN <<>>
        ELSE SubSeq(t, CHOOSE i \in solid : \A j \in solid : i <= j,
                       CHOOSE i \in solid : \A j \in solid : j <= i)

\* C2 as stated: for a non-empty text without '.', sentenceCount = 1, the
\* sentence sequence is empty and longestSentence is the empty string.
C2_Original ==
    (Measured /\ text # <<>> /\ HasNoPeriod(text)) =>
        /\ metrics.sentenceCount = 1
        /\ Sentences(text) = <<>>
        /\ metrics.longestSentence = <<>>

\* C2, amended: for a non-empty text without '.', sentenceCount = 1; when the text
\* has a non-whitespace character the sentence sequence is the one trimmed text and
\* longestSentence is that trimmed text; only for a whitespace-only text is the
\* sequence empty and longestSentence the empty string.
C2_NoPeriod ==
    (Measured /\ text # <<>> /\ HasNoPeriod(text)) =>
        /\ metrics.sentenceCount = 1
        /\ IF IsBlank(text)
           THEN Sentences(text) = <<>> /\ metrics.longestSentence = <<>>
           ELSE Sentences(text) = <<Trimmed(text)>>
                /\ metrics.longestSentence = Trimmed(text)

C2_Witness ==
    Measured /\ text = <<" ", "a", NL>> /\ metrics.longestSentence = <<"a">>

\* the whitespace-delimited tokens of a text, by positions
TokenStarts(t) == {i \in 1..Len(t) : ~IsSpace(t[i]) /\ (i = 1 \/ IsSpace(t[i - 1]))}
TokenEnd(t, i) ==
    CHOOSE j \in i..Len(t) :
        /\ \A k \in i..j : ~IsSpace(t[k])
        /\ (j = Len(t) \/ IsSpace(t[j + 1]))
TokenAt(t, i) == SubSeq(t, i, TokenEnd(t, i))
Tokens(t) == {TokenAt(t, i) : i \in TokenStarts(t)}

TheCatSat == <<"T", "h", "e", " ", "c", "a", "t", " ", "s", "a", "t">>

CountsAsDefined ==
    /\ metrics.letterCount = Len(SelectSeq(text, IsAlpha))
    /\ metrics.wordCount = Cardinality(TokenStarts(text))
    /\ metrics.uniqueWordCount = Cardinality({Lower(w) : w \in Tokens(text)})

\* C3 as stated: "The cat sat. The dog ran." gives wordCount = 6, sentenceCount = 2,
\* letterCount = 17, uniqueWordCount = 5, longestSentence = "The cat sat"; letterCount
\* is the number of alphabetic characters, wordCount the number of whitespace-delimited
\* tokens, uniqueWordCount the number of distinct lowercased tokens.
C3_Original ==
    Measured =>
        /\ CountsAsDefined
        /\ text = CatText =>
            /\ metrics.wordCount = 6
            /\ metrics.sentenceCount = 2
            /\ metrics.letterCount = 17
            /\ metrics.uniqueWordCount = 5
            /\ metrics.longestSentence = TheCatSat

\* C3, amended: the same with letterCount = 18 for "The cat sat. The dog ran."
C3_WorkedExample ==
    Measured =>
        /\ CountsAsDefined
        /\ text = CatText =>
            /\ metrics.wordCount = 6
            /\ metrics.sentenceCount = 2
            /\ metrics.letterCount = 18
            /\ metrics.uniqueWordCount = 5
            /\ metrics.longestSentence = TheCatSat

C3_Witness == Measured /\ text = CatText /\ metrics.letterCount = 18

\* the sum of the syllable primitive's answers for the words, one by one
WordSyllableSum ==
    LET words == Words(text)
    IN  Sum([i \in 1..Len(words) |-> lib.sylWord[words[i]]])

PerWordCounts ==
    LET words == Words(text)
    IN  /\ metrics.wordsThreeSyllables =
              Cardinality({i \in 1..Len(words) : lib.sylWord[words[i]] = 3})
        /\ metrics.wordsMoreThan4Syllables =
              Cardinality({i \in 1..Len(words) : lib.sylWord[words[i]] > 4})

\* C4 as stated: totalSyllables is the sum over the words of the syllable primitive
\* applied to each word (the counts behind wordsThreeSyllables and
\* wordsMoreThan4Syllables), and avgSyllablesPerWord is that sum over wordCount.
C4_Original ==
    Measured =>
        /\ PerWordCounts
        /\ metrics.totalSyllables = WordSyllableSum
        /\ metrics.avgSyllablesPerWord =
              (IF metrics.wordCount > 0
               THEN Round1(WordSyllableSum, metrics.wordCount) ELSE 0)

\* C4, amended: totalSyllables is the syllable primitive applied once to the whole
\* text (the per-word answers drive only wordsThreeSyllables and
\* wordsMoreThan4Syllables), and avgSyllablesPerWord is that value over wordCount,
\* rounded to one decimal, 0 when wordCount = 0.
C4_TotalSyllables ==
    Measured =>
        /\ PerWordCounts
        /\ metrics.totalSyllables = lib.sylText
        /\ metrics.avgSyllablesPerWord =
              (IF metrics.wordCount > 0
               THEN Round1(lib.sylText, metrics.wordCount) ELSE 0)

C4_Witness ==
    /\ Measured
    /\ metrics.wordCount = 2
    /\ metrics.totalSyllables = lib.sylText
    /\ lib.sylText # WordSyllableSum
    /\ metrics.wordsThreeSyllables = 1

\* the lowercased tokens, their occurrences and first positions in the text
LowerTokens(t) == {Lower(w) : w \in Tokens(t)}
Occurrences(t, w) == Cardinality({i \in TokenStarts(t) : Lower(TokenAt(t, i)) = w})
FirstOccurrence(t, w) ==
    CHOOSE i \in TokenStarts(t) :
        /\ Lower(TokenAt(t, i)) = w
        /\ \A j \in TokenStarts(t) : Lower(TokenAt(t, j)) = w => i <= j

\* C5: topWords holds at most 5 (word, count) pairs over the lowercased tokens, each
\* word once with its exact number of occurrences, the counts non-increasing, no
\* excluded word with a strictly higher count than an included one, and of two
\* words of equal count the one that occurs first in the text ranks first;
\* "a a b b c c d d e e f" yields a, b, c, d, e with count 2 each, f excluded.
C5_TopWords ==
    Measured =>
        LET tw == metrics.topWords
            included == {tw[k].word : k \in 1..Len(tw)}
        IN  /\ Len(tw) <= 5
            /\ Len(tw) = Min(5, Cardinality(LowerTokens(text)))
            /\ \A k \in 1..Len(tw) :
                  /\ tw[k].word \in LowerTokens(text)
                  /\ tw[k].count = Occurrences(text, tw[k].word)
            /\ \A k, m \in 1..Len(tw) :
                  k < m =>
                      /\ tw[k].word # tw[m].word
                      /\ tw[k].count >= tw[m].count
                      /\ tw[k].count = tw[m].count =>
                            FirstOccurrence(text, tw[k].word) < FirstOccurrence(text, tw[m].word)
            /\ \A w \in LowerTokens(text) \ included :
                  \A k \in 1..Len(tw) : Occurrences(text, w) <= tw[k].count
            /\ text = TieText =>
                  tw = << [word |-> <<"a">>, count |-> 2], [word |-> <<"b">>, count |-> 2],
                          [word |-> <<"c">>, count |-> 2], [word |-> <<"d">>, count |-> 2],
                          [word |-> <<"e">>, count |-> 2] >>

C5_Witness ==
    /\ Measured
    /\ text = TieText
    /\ Len(metrics.topWords) = 5
    /\ metrics.topWords[1] = [word |-> <<"a">>, count |-> 2]
    /\ metrics.topWords[5] = [word |-> <<"e">>, count |-> 2]

\* C8: when the split on '.' yields a non-blank piece, longestSentence is one of
\* the trimmed non-blank pieces, no piece has more whitespace-delimited tokens, and
\* every piece before it has strictly fewer (the first of the longest wins).
C8_LongestSentence ==
    (Measured /\ Sentences(text) # <<>>) =>
        LET pieces == Sentences(text)
            tokens(p) == Cardinality(TokenStarts(p))
        IN  \E i \in 1..Len(pieces) :
                /\ metrics.longestSentence = pieces[i]
                /\ \A j \in 1..Len(pieces) : tokens(pieces[j]) <= tokens(pieces[i])
                /\ \A j \in 1..(i - 1) : tokens(pieces[j]) < tokens(pieces[i])

C8_Witness ==
    Measured /\ text = SentenceText /\ metrics.longestSentence = <<"b", " ", "c">>

-----------------------------------------------------------------------------
(* Properties of the descriptor functions *)

EaseVeryEasy == "Very Easy (Easily understood by an 11-year-old, simple language)"
EaseEasy == "Easy (Conversational English, good for younger audiences)"
EaseFairlyEasy == "Fairly Easy (Standard reading level, easily understood by teenagers)"
EaseStandard == "Standard (Plain English, suitable for most readers)"
EaseFairlyDifficult == "Fairly Difficult (Somewhat challenging, college-level text)"
EaseDifficult == "Difficult (Best for academics and professionals, complex text)"
EaseVeryDifficult == "Very Difficult (Extremely complex, suitable for specialists)"

\* C6: get_reading_ease_descriptor maps every score to exactly one of seven bands:
\* >= 90 Very Easy, [80, 90) Easy, [70, 80) Fairly Easy, [60, 70) Standard,
\* [50, 60) Fairly Difficult, [30, 50) Difficult, < 30 Very Difficult; 90 is Very
\* Easy, 89.9 is Easy, scores above 100 are Very Easy, negative ones Very Difficult.
C6_EaseBands ==
    (job = "ease" /\ pc = "done") =>
        /\ label \in {EaseVeryEasy, EaseEasy, EaseFairlyEasy, EaseStandard,
                      EaseFairlyDifficult, EaseDifficult, EaseVeryDifficult}
        /\ (label = EaseVeryEasy) <=> (score >= 900)
        /\ (label = EaseEasy) <=> (800 <= score /\ score < 900)
        /\ (label = EaseFairlyEasy) <=> (700 <= score /\ score < 800)
        /\ (label = EaseStandard) <=> (600 <= score /\ score < 700)
        /\ (label = EaseFairlyDifficult) <=> (500 <= score /\ score < 600)
        /\ (label = EaseDifficult) <=> (300 <= score /\ score < 500)
        /\ (label = EaseVeryDifficult) <=> (score < 300)

C6_Witness == job = "ease" /\ pc = "done" /\ score = 899 /\ label = EaseEasy

GradeVeryEasy == "Very Easy (5th grade or below, easily understood by an 11-year-old)"
GradeEasy == "Easy (6th-8th grade, fairly easy to read)"
GradeStandard == "Standard (9th-10th grade, moderately challenging)"
GradeFairlyDifficult == "Fairly Difficult (11th-12th grade, college level)"
GradeDifficult == "Difficult (College level, requires advanced reading skills)"
GradeVeryDifficult == "Very Difficult (Postgraduate level, highly academic)"

GradeBands(grade, l) ==
    /\ l \in {GradeVeryEasy, GradeEasy, GradeStandard, GradeFairlyDifficult,
              GradeDifficult, GradeVeryDifficult}
    /\ (l = GradeVeryEasy) <=> (grade <= 50)
    /\ (l = GradeEasy) <=> (50 < grade /\ grade <= 80)
    /\ (l = GradeStandard) <=> (80 < grade /\ grade <= 100)
    /\ (l = GradeFairlyDifficult) <=> (100 < grade /\ grade <= 120)
    /\ (l = GradeDifficult) <=> (120 < grade /\ grade <= 150)
    /\ (l = GradeVeryDifficult) <=> (grade > 150)

\* C7: get_readability_descriptor maps every grade to exactly one of six bands:
\* <= 5 Very Easy (negative grades too), (5, 8] Easy, (8, 10] Standard, (10, 12]
\* Fairly Difficult, (12, 15] Difficult, > 15 Very Difficult; 5 is Very Easy, 5.1 is
\* Easy; and the record's readabilityDescriptor is the band of its fleschKincaid.
C7_GradeBands ==
    /\ (job = "grade" /\ pc = "done") => GradeBands(score, label)
    /\ Measured =>
          /\ metrics.fleschKincaid = lib.fk
          /\ GradeBands(metrics.fleschKincaid, metrics.readabilityDescriptor)

C7_Witness ==
    /\ Measured
    /\ metrics.fleschKincaid = 51
    /\ metrics.readabilityDescriptor = GradeEasy

-----------------------------------------------------------------------------
(* The request handlers.  A request of client c runs in its own thread;       *)
(* register_user takes four steps: os.path.exists, the read of the file, the   *)
(* open for append (which creates the file), and the write of the buffered     *)
(* rows when the file is closed.                                               *)

WebTexts == {<<>>, <<" ">>, <<"a">>, <<"a", " ", "a">>}

\* the JSON object of POST /modify: 'text' and the target_* fields (targets_ok:
\* int() accepts each of them)
ModifyBodies == {[text |-> t, targets_ok |-> b] : t \in WebTexts, b \in BOOLEAN}

WebInit ==
    /\ job = "web"
    /\ pc = "done"
    /\ text = <<>>
    /\ lib = NoLib
    /\ metrics = NoMetrics
    /\ score = 0
    /\ label = ""
    /\ WebIdle

\* register(), POST, up to register_user's os.path.exists
RegisterPost(c, email, password) ==
    /\ reg[c].pc = "idle"
    /\ Len(users.rows) < MaxRows
    /\ IF email = "" \/ password = ""
       THEN /\ resp' = Response("register", 200, "Please fill in both fields.")
            /\ UNCHANGED reg
       ELSE /\ reg' = [reg EXCEPT ![c] = [pc |-> IF users.exists THEN "scan" ELSE "open",
                                          email |-> email,
                                          file_exists |-> users.exists,
                                          stored |-> EmailStored(users.rows, email)]]
            /\ UNCHANGED resp
    /\ UNCHANGED <<job, pc, metricVars, descVars, users, session, logRows>>

\* register_user: the DictReader loop; on a match return False, and register()
\* renders "User already exists."
RegisterScan(c) ==
    /\ reg[c].pc = "scan"
    /\ IF EmailFound(users.rows, reg[c].email)
       THEN /\ reg' = [reg EXCEPT ![c] = IdleReg]
            /\ resp' = Response("register", 200, "User already exists.")
       ELSE /\ reg' = [reg EXCEPT ![c].pc = "open"]
            /\ UNCHANGED resp
    /\ UNCHANGED <<job, pc, metricVars, descVars, users, session, logRows>>

\* register_user: open(USERS_CSV, 'a') creates the file
RegisterOpen(c) ==
    /\ reg[c].pc = "open"
    /\ users' = [users EXCEPT !.exists = TRUE]
    /\ reg' = [reg EXCEPT ![c].pc = "write"]
    /\ UNCHANGED <<job, pc, metricVars, descVars, session, logRows, resp>>

\* the rows register_user writes: the header when the file did not exist, the row
NewRows(file_exists, email) ==
    (IF file_exists THEN <<>> ELSE <<UserHeaders>>) \o <<UserRow(email, "p")>>

\* register_user: the rows reach the file, return True; register() stores the
\* email in the session and redirects
RegisterWrite(c) ==
    /\ reg[c].pc = "write"
    /\ users' = [users EXCEPT !.rows = @ \o NewRows(reg[c].file_exists, reg[c].email)]
    /\ session' = [session EXCEPT ![c] = reg[c].email]
    /\ reg' = [reg EXCEPT ![c] = IdleReg]
    /\ resp' = Response("register", 302, "")
    /\ UNCHANGED <<job, pc, metricVars, descVars, logRows>>

\* login(), POST
Login(c, email, password) ==
    /\ IF validate_user(email, password)
       THEN /\ session' = [session EXCEPT ![c] = email]
            /\ resp' = Response("login", 302, "")
       ELSE /\ resp' = Response("login", 200, "Invalid credentials.")
            /\ UNCHANGED session
    /\ UNCHANGED <<job, pc, metricVars, descVars, users, reg, logRows>>

\* logout(): session.clear()
Logout(c) ==
    /\ session[c] # NoUser
    /\ session' = [session EXCEPT ![c] = NoUser]
    /\ resp' = Response("logout", 302, "")
    /\ UNCHANGED <<job, pc, metricVars, descVars, users, reg, logRows>>

\* analyze()
Analyze(c, t) ==
    /\ resp' =
          IF session[c] = NoUser
          THEN [Response("analyze", 401, "Unauthorized") EXCEPT !.text = t]
          ELSE IF Strip(t) = <<>>
          THEN [Response("analyze", 400, "Please provide some text to analyze.")
                    EXCEPT !.logged_in = TRUE, !.text = t]
          ELSE [Response("analyze", 200, "")
                    EXCEPT !.logged_in = TRUE, !.text = t, !.called = TRUE, !.measured = t]
    /\ UNCHANGED <<job, pc, metricVars, descVars, users, reg, session, logRows>>

\* modify_text().  int() of a target that is no integer raises ValueError, which
\* nothing handles (500), before the text is looked at.  The name client is bound nowhere in app.py: the call raises NameError, which the except
\* clause turns into the 500 response, so the lines after it never run.
Modify(c, body) ==
    /\ resp' =
          IF session[c] = NoUser
          THEN [Response("modify", 401, "Unauthorized") EXCEPT !.text = body.text]
          ELSE IF ~body.targets_ok
          THEN [Response("modify", 500, "ValueError")
                    EXCEPT !.logged_in = TRUE, !.text = body.text]
          ELSE IF Strip(body.text) = <<>>
          THEN [Response("modify", 400, "Please provide some text to modify.")
                    EXCEPT !.logged_in = TRUE, !.text = body.text]
          ELSE [Response("modify", 500, "OpenAI API request failed: name 'client' is not defined")
                    EXCEPT !.logged_in = TRUE, !.text = body.text]
    /\ UNCHANGED <<job, pc, metricVars, descVars, users, reg, session, logRows>>

WebNext ==
    \/ \E c \in Clients, e \in Emails \cup {""}, p \in {"p", ""} : RegisterPost(c, e, p)
    \/ \E c \in Clients : RegisterScan(c)
    \/ \E c \in Clients : RegisterOpen(c)
    \/ \E c \in Clients : RegisterWrite(c)
    \/ \E c \in Clients, e \in Emails, p \in Passwords : Login(c, e, p)
    \/ \E c \in Clients : Logout(c)
    \/ \E c \in Clients, t \in WebTexts : Analyze(c, t)
    \/ \E c \in Clients, b \in ModifyBodies : Modify(c, b)

WebSpec == WebInit /\ [][WebNext]_vars

-----------------------------------------------------------------------------
(* Properties of the web layer *)

\* C9: /analyze and /modify call calculate_text_metrics only for a logged-in
\* session and only with a text that has a non-whitespace character; a request
\* without user_email in the session ends with 401, a request with an empty or
\* whitespace-only text ends with 400, both without computing metrics or appending
\* a log row; /modify measures a non-blank text (the modified text, else the original).
C9_Original ==
    resp.handler \in {"analyze", "modify"} =>
        /\ resp.called => (resp.logged_in /\ ~IsBlank(resp.measured))
        /\ ~resp.logged_in => (resp.status = 401 /\ ~resp.called /\ logRows = 0)
        /\ (resp.logged_in /\ IsBlank(resp.text)) =>
              (resp.status = 400 /\ ~resp.called /\ logRows = 0)
        /\ (resp.handler = "modify" /\ resp.called) =>
              (~IsBlank(resp.measured) /\ (IsBlank(resp.text) => resp.measured # resp.text))

\* C10: under any interleaving of register_user calls the users file holds at most
\* one row per case-insensitively equal email, the header exactly once, as the
\* first row, and a call for an email already stored never appends (it returns
\* False and leaves the file unchanged).
C10_Original ==
    LET rows == users.rows
    IN  /\ \A i, j \in 1..Len(rows) :
              (i < j /\ rows[i] # UserHeaders /\ rows[j] # UserHeaders) =>
                  LowerEmail(rows[i][2]) # LowerEmail(rows[j][2])
        /\ rows # <<>> =>
              /\ rows[1] = UserHeaders
              /\ \A i \in 2..Len(rows) : rows[i] # UserHeaders
        /\ \A c \in Clients : reg[c].stored => reg[c].pc \in {"idle", "scan"}

====
